---- MODULE Spec2Model ----
(***************************************************************************)
(* State-machine model of stress-daemon.c: the Orchestrator                *)
(* (stress_daemon), the Worker it forks, and the lineage of daemon         *)
(* descendants created by daemons(), synchronised over a pipe.             *)
(***************************************************************************)
EXTENDS Integers, Sequences, FiniteSets, TLC

\* ---- bounds of the model ------------------------------------------------
MaxProcs == 3          \* process slots available to the Worker lineage
MaxOps == 2            \* largest daemon-ops target drawn in Init
PipeCap == 1           \* bytes the pipe buffers before a write blocks
MaxTransient == 1      \* EAGAIN/ENOMEM fork failures injected in daemons()
MaxBackoffFails == 101 \* transient fork failures injected under BackoffSpec
MaxLineage == 4        \* process slots available to the lineage under WaitSpec

\* ---- program constants --------------------------------------------------
MAX_BACKOFF == 10000
BackoffInit == 100
BackoffStep == 100
Sentinel == 255

Procs == 0 .. (MaxLineage - 1)
ORCH == -1             \* parent id of the Worker: the Orchestrator
NOPID == -2

VARIABLES
    daemon_wait,  \* the daemon-wait setting read at line 156
    max_ops,      \* args->max_ops, the daemon-ops target
    counter,      \* RunCounter, bumped by inc_counter(args)
    flagO,        \* g_keep_stressing_flag in the Orchestrator
    pcO,          \* position of the Orchestrator in stress_daemon()
    fds,          \* stress_daemon's fds[2] in the Orchestrator: [r, w]
    pidO,         \* stress_daemon's pid in the Orchestrator
    ret,          \* return value of stress_daemon() in the Orchestrator
    cause,        \* which early return, if any, ended the run
    lastn,        \* result n of the last read(): 1, 0, -1 (9 = no read yet)
    lasterr,      \* errno of the last failed read
    dbg,          \* number of pr_dbg "read failed" messages
    proc,         \* the Worker lineage: one record per process slot
    nprocs,       \* processes forked so far (the next free slot)
    chan,         \* bytes buffered in the pipe
    written,      \* sentinel bytes written to the pipe so far
    nread,        \* bytes the Orchestrator has taken out of the pipe
    nreadcalls,   \* read() calls that returned in the Orchestrator
    neof,         \* read() calls that returned 0 (end-of-stream)
    ntransient,   \* transient fork failures injected so far
    budget,       \* transient fork failures the environment may inject
    slots,        \* process slots the system has for the lineage
    redo,         \* the last fork() of stress_daemon failed and is being retried
    sigalrm       \* a SIGALRM has been delivered to some process of the run

vars == << daemon_wait, max_ops, counter, flagO, pcO, fds, pidO, ret, cause,
           lastn, lasterr, dbg, proc, nprocs, chan, written, nread,
           nreadcalls, neof, ntransient, budget, slots, redo, sigalrm >>

envvars == << daemon_wait, max_ops, budget, slots >>
orchvars == << counter, flagO, pcO, fds, pidO, ret, cause, lastn, lasterr,
               dbg, nread, nreadcalls, neof, redo >>

\* ---- descriptors --------------------------------------------------------
\* A descriptor slot is "none" (never assigned), "open" or "closed".
Close(s) == IF s = "open" THEN "closed" ELSE s

NoProc == [ pc |-> "none", flag |-> FALSE, handler |-> FALSE,
            rfd |-> "none", wfd |-> "none",
            nfd |-> << "none", "none", "none" >>,
            backoff |-> 0, pid |-> NOPID, parent |-> NOPID,
            wrote |-> 0, forked |-> 0, slept |-> 0, nfail |-> 0,
            consec |-> 0, chdir_ok |-> FALSE, reaper |-> "none",
            killed |-> FALSE, leak |-> FALSE, badclose |-> 0 ]

Alive(i) == proc[i].pc \notin { "none", "zombie", "reaped" }

\* Some process still holds the pipe's write end / read end.
Writers == fds.w = "open" \/ \E i \in Procs : Alive(i) /\ proc[i].wfd = "open"
Readers == fds.r = "open" \/ \E i \in Procs : Alive(i) /\ proc[i].rfd = "open"

Min(a, b) == IF a < b THEN a ELSE b

Init ==
    /\ daemon_wait \in BOOLEAN
    /\ max_ops \in 0 .. MaxOps
    /\ budget = MaxTransient
    /\ slots = MaxProcs
    /\ counter = 0
    /\ flagO = TRUE
    /\ pcO = "sigstop"
    /\ fds = [ r |-> "none", w |-> "none" ]
    /\ pidO = NOPID
    /\ ret = "none"
    /\ cause = "none"
    /\ lastn = 9
    /\ lasterr = "none"
    /\ dbg = 0
    /\ proc = [ i \in Procs |-> NoProc ]
    /\ nprocs = 0
    /\ chan = << >>
    /\ written = 0
    /\ nread = 0
    /\ nreadcalls = 0
    /\ neof = 0
    /\ ntransient = 0
    /\ redo = FALSE
    /\ sigalrm = FALSE

\* ---- harness predicates ---------------------------------------------------
\* keep_stressing(args): the run is active, i.e. neither stopped nor at its
\* operation-count target.
keep_stressing(f, c) == f /\ c < max_ops

\* keep_stressing_flag(): the calling process's copy of the stop flag.
keep_stressing_flag(i) == proc[i].flag

\* ---- Orchestrator: stress_daemon() ---------------------------------------
\* Lines 156-159: register the SIGALRM stop handler, or return EXIT_FAILURE.
stress_daemon_sigstop ==
    /\ pcO = "sigstop"
    /\ \E ok \in BOOLEAN :
         IF ok
         THEN /\ pcO' = "pipe"
              /\ UNCHANGED << ret, cause >>
         ELSE /\ pcO' = "returned"
              /\ ret' = "EXIT_FAILURE"
              /\ cause' = "sigstop"
    /\ UNCHANGED << envvars, counter, flagO, fds, pidO, lastn, lasterr, dbg,
                    proc, nprocs, chan, written, nread, nreadcalls, neof,
                    ntransient, redo, sigalrm >>

\* stress_daemon_pipe without the return at line 164: a failed pipe() falls
\* through to the fork.
stress_daemon_pipe_fallthrough ==
    /\ pcO = "pipe"
    /\ \E ok \in BOOLEAN :
         IF ok
         THEN /\ fds' = [ r |-> "open", w |-> "open" ]
              /\ UNCHANGED cause
         ELSE /\ cause' = "pipe"
              /\ UNCHANGED fds
    /\ pcO' = "fork"
    /\ UNCHANGED << envvars, counter, flagO, pidO, ret, lastn, lasterr, dbg,
                    proc, nprocs, chan, written, nread, nreadcalls, neof,
                    ntransient, redo, sigalrm >>

\* Lines 161-167: create the pipe, or report and return EXIT_FAILURE.
stress_daemon_pipe ==
    /\ pcO = "pipe"
    /\ \E ok \in BOOLEAN :
         IF ok
         THEN /\ fds' = [ r |-> "open", w |-> "open" ]
              /\ pcO' = "fork"
              /\ UNCHANGED << ret, cause >>
         ELSE /\ pcO' = "returned"
              /\ ret' = "EXIT_FAILURE"
              /\ cause' = "pipe"
              /\ UNCHANGED fds
    /\ UNCHANGED << envvars, counter, flagO, pidO, lastn, lasterr, dbg,
                    proc, nprocs, chan, written, nread, nreadcalls, neof,
                    ntransient, redo, sigalrm >>

\* The Worker as fork() at line 169 creates it: a copy of the Orchestrator
\* (descriptors, stop flag, signal dispositions) resuming at line 182.
NewWorker ==
    [ NoProc EXCEPT !.pc = "close_r", !.flag = flagO, !.handler = TRUE,
                    !.rfd = fds.r, !.wfd = fds.w, !.parent = ORCH ]

\* stress_daemon_fork without the keep_stressing() test of line 173: every
\* non-retryable fork failure is fatal.
stress_daemon_fork_nocheck ==
    /\ pcO = "fork"
    /\ \/ /\ nprocs < slots
          /\ proc' = [ proc EXCEPT ![nprocs] = NewWorker ]
          /\ pidO' = nprocs
          /\ nprocs' = nprocs + 1
          /\ pcO' = "close_w"
          /\ redo' = FALSE
          /\ UNCHANGED << fds, ret, cause >>
       \/ /\ redo' = TRUE
          /\ UNCHANGED << pcO, proc, pidO, nprocs, fds, ret, cause >>
       \/ /\ fds' = [ r |-> Close(fds.r), w |-> Close(fds.w) ]
          /\ pcO' = "returned"
          /\ ret' = "EXIT_FAILURE"
          /\ cause' = "fork"
          /\ redo' = FALSE
          /\ UNCHANGED << proc, pidO, nprocs >>
    /\ UNCHANGED << envvars, counter, flagO, lastn, lasterr, dbg, chan,
                    written, nread, nreadcalls, neof, ntransient, sigalrm >>

\* Lines 168-180: fork the Worker; a failed fork is retried when
\* stress_redo_fork() says so, ends the run quietly when the run is no longer
\* active, and is fatal otherwise.
stress_daemon_fork ==
    /\ pcO = "fork"
    /\ \/ /\ nprocs < slots                       \* pid > 0 / pid == 0
          /\ proc' = [ proc EXCEPT ![nprocs] = NewWorker ]
          /\ pidO' = nprocs
          /\ nprocs' = nprocs + 1
          /\ pcO' = "close_w"
          /\ redo' = FALSE
          /\ UNCHANGED << fds, ret, cause >>
       \/ /\ redo' = TRUE                            \* stress_redo_fork(errno)
          /\ UNCHANGED << pcO, proc, pidO, nprocs, fds, ret, cause >>
       \/ /\ ~ keep_stressing(flagO, counter)        \* goto finish
          /\ pcO' = "finish"
          /\ cause' = "fork_inactive"
          /\ redo' = FALSE
          /\ UNCHANGED << proc, pidO, nprocs, fds, ret >>
       \/ /\ keep_stressing(flagO, counter)          \* lines 175-179
          /\ fds' = [ r |-> Close(fds.r), w |-> Close(fds.w) ]
          /\ pcO' = "returned"
          /\ ret' = "EXIT_FAILURE"
          /\ cause' = "fork"
          /\ redo' = FALSE
          /\ UNCHANGED << proc, pidO, nprocs >>
    /\ UNCHANGED << envvars, counter, flagO, lastn, lasterr, dbg, chan,
                    written, nread, nreadcalls, neof, ntransient, sigalrm >>

\* stress_daemon_parent_close without the close of line 188.
stress_daemon_parent_close_skip ==
    /\ pcO = "close_w"
    /\ pcO' = "read"
    /\ UNCHANGED << envvars, counter, flagO, fds, pidO, ret, cause, lastn,
                    lasterr, dbg, proc, nprocs, chan, written, nread,
                    nreadcalls, neof, ntransient, redo, sigalrm >>

\* Line 188: the parent closes the write end.
stress_daemon_parent_close ==
    /\ pcO = "close_w"
    /\ fds' = [ fds EXCEPT !.w = Close(fds.w) ]
    /\ pcO' = "read"
    /\ UNCHANGED << envvars, counter, flagO, pidO, ret, cause, lastn, lasterr,
                    dbg, proc, nprocs, chan, written, nread, nreadcalls, neof,
                    ntransient, redo, sigalrm >>

\* ReadLoopNext with the target tested off by one (<= for <).
ReadLoopNext_offbyone(c) ==
    IF flagO /\ c <= max_ops THEN "read" ELSE "wait"

\* Line 205: the do-while condition, evaluated after inc_counter().
ReadLoopNext(c) == IF keep_stressing(flagO, c) THEN "read" ELSE "wait"

\* Lines 193-205 with n == 1: a byte is taken from the pipe and counted.
stress_daemon_read_byte ==
    /\ pcO = "read"
    /\ Len(chan) > 0
    /\ chan' = Tail(chan)
    /\ lastn' = 1
    /\ nread' = nread + 1
    /\ nreadcalls' = nreadcalls + 1
    /\ counter' = counter + 1
    /\ pcO' = ReadLoopNext(counter')
    /\ UNCHANGED << envvars, flagO, fds, pidO, ret, cause, lasterr, dbg,
                    proc, nprocs, written, neof, ntransient, redo, sigalrm >>

\* stress_daemon_read_eof treating end-of-stream as the end of the loop,
\* without counting it.
stress_daemon_read_eof_break ==
    /\ pcO = "read"
    /\ Len(chan) = 0
    /\ ~ Writers
    /\ lastn' = 0
    /\ neof' = neof + 1
    /\ nreadcalls' = nreadcalls + 1
    /\ pcO' = "wait"
    /\ UNCHANGED << envvars, counter, flagO, fds, pidO, ret, cause, lasterr,
                    dbg, proc, nprocs, chan, written, nread, ntransient,
                    redo, sigalrm >>

\* Lines 193-205 with n == 0: the pipe is empty and no write end is open, so
\* read() reports end-of-stream; n < 0 is false and inc_counter() runs.
stress_daemon_read_eof ==
    /\ pcO = "read"
    /\ Len(chan) = 0
    /\ ~ Writers
    /\ lastn' = 0
    /\ neof' = neof + 1
    /\ nreadcalls' = nreadcalls + 1
    /\ counter' = counter + 1
    /\ pcO' = ReadLoopNext(counter')
    /\ UNCHANGED << envvars, flagO, fds, pidO, ret, cause, lasterr, dbg,
                    proc, nprocs, chan, written, nread, ntransient, redo,
                    sigalrm >>

\* stress_daemon_read_err with the close and the break placed inside the
\* errno != EINTR test: an interrupted read is retried.
stress_daemon_read_err_retry ==
    /\ pcO = "read"
    /\ \E e \in { "EINTR", "EIO" } :
         /\ lasterr' = e
         /\ dbg' = IF e # "EINTR" THEN dbg + 1 ELSE dbg
         /\ fds' = IF e # "EINTR" THEN [ fds EXCEPT !.r = Close(fds.r) ] ELSE fds
         /\ pcO' = IF e # "EINTR" THEN "wait" ELSE "read"
    /\ lastn' = -1
    /\ nreadcalls' = IF nreadcalls < 3 THEN nreadcalls + 1 ELSE nreadcalls
    /\ UNCHANGED << envvars, counter, flagO, pidO, ret, cause, proc, nprocs,
                    chan, written, nread, neof, ntransient, redo, sigalrm >>

\* Lines 193-203 with n < 0: the read end is closed and the loop is left,
\* whatever errno is; only errno != EINTR is reported with pr_dbg.
stress_daemon_read_err ==
    /\ pcO = "read"
    /\ \E e \in { "EINTR", "EIO" } :
         /\ lasterr' = e
         /\ dbg' = IF e # "EINTR" THEN dbg + 1 ELSE dbg
    /\ lastn' = -1
    /\ nreadcalls' = nreadcalls + 1
    /\ fds' = [ fds EXCEPT !.r = Close(fds.r) ]
    /\ pcO' = "wait"
    /\ UNCHANGED << envvars, counter, flagO, pidO, ret, cause, proc, nprocs,
                    chan, written, nread, neof, ntransient, redo, sigalrm >>

\* daemon_wait_pid(), lines 51-58, as called by stress_daemon at line 207 for
\* process p waiting on child c: with daemon_wait the call blocks until c has
\* terminated and reaps it; without it nothing is done.
daemon_wait_pid_ready(c) == daemon_wait => proc[c].pc = "zombie"
daemon_wait_pid_reap(c) ==
    IF daemon_wait
    THEN [ proc EXCEPT ![c].pc = "reaped", ![c].reaper = "parent" ]
    ELSE proc

\* Line 207.
stress_daemon_wait ==
    /\ pcO = "wait"
    /\ daemon_wait_pid_ready(pidO)
    /\ proc' = daemon_wait_pid_reap(pidO)
    /\ pcO' = "finish"
    /\ UNCHANGED << envvars, counter, flagO, fds, pidO, ret, cause, lastn,
                    lasterr, dbg, nprocs, chan, written, nread, nreadcalls, neof,
                    ntransient, redo, sigalrm >>

\* stress_daemon_finish surfacing a failed read as a failed run.
stress_daemon_finish_readfail ==
    /\ pcO = "finish"
    /\ pcO' = "returned"
    /\ ret' = IF lastn = -1 THEN "EXIT_FAILURE" ELSE "EXIT_SUCCESS"
    /\ UNCHANGED << envvars, counter, flagO, fds, pidO, cause, lastn, lasterr,
                    dbg, proc, nprocs, chan, written, nread, nreadcalls, neof,
                    ntransient, redo, sigalrm >>

\* Lines 210-213: finish: set the DEINIT state and return EXIT_SUCCESS.
stress_daemon_finish ==
    /\ pcO = "finish"
    /\ pcO' = "returned"
    /\ ret' = "EXIT_SUCCESS"
    /\ UNCHANGED << envvars, counter, flagO, fds, pidO, cause, lastn, lasterr,
                    dbg, proc, nprocs, chan, written, nread, nreadcalls, neof,
                    ntransient, redo, sigalrm >>

\* ---- Worker lineage -------------------------------------------------------
\* What the kernel leaves of a process that terminates: a zombie with every
\* descriptor released and its locals gone; leak records that some descriptor
\* was still open, killed that a signal ended it.
Terminated(p, sig) ==
    [ NoProc EXCEPT !.pc = "zombie", !.killed = sig,
                    !.leak = \/ p.rfd = "open" \/ p.wfd = "open"
                             \/ \E k \in 1 .. 3 : p.nfd[k] = "open",
                    !.rfd = Close(p.rfd), !.wfd = Close(p.wfd),
                    !.nfd = [ k \in 1 .. 3 |-> Close(p.nfd[k]) ],
                    !.pid = p.pid, !.parent = p.parent, !.wrote = p.wrote,
                    !.forked = p.forked, !.chdir_ok = p.chdir_ok,
                    !.badclose = p.badclose ]

\* Process i terminates: it becomes a zombie for its parent to reap. The
\* process-tree root adopts and reaps what has no living parent: i itself if
\* its parent is gone, and the zombie children i leaves unreaped.
Terminate(i, p, sig) ==
    [ j \in Procs |->
        IF j = i
        THEN IF p.parent \in Procs /\ ~ Alive(p.parent)
             THEN [ Terminated(p, sig) EXCEPT !.pc = "reaped", !.reaper = "init" ]
             ELSE Terminated(p, sig)
        ELSE IF proc[j].parent = i /\ proc[j].pc = "zombie"
             THEN [ proc[j] EXCEPT !.pc = "reaped", !.reaper = "init" ]
             ELSE proc[j] ]

\* Lines 180-183: the Worker closes the read end and calls daemons().
stress_daemon_child_close(i) ==
    /\ proc[i].pc = "close_r"
    /\ proc' = [ proc EXCEPT ![i].rfd = Close(proc[i].rfd), ![i].pc = "init" ]
    /\ UNCHANGED << envvars, orchvars, nprocs, chan, written, ntransient,
                    sigalrm >>

\* Lines 72-77: backoff = 100; register the stop handler and setsid(); either
\* failing goes to err.
daemons_init(i) ==
    /\ proc[i].pc = "init"
    /\ \E ok \in BOOLEAN :
         proc' = [ proc EXCEPT ![i].backoff = BackoffInit,
                               ![i].handler = TRUE,
                               ![i].pc = IF ok THEN "redirect" ELSE "err" ]
    /\ UNCHANGED << envvars, orchvars, nprocs, chan, written, ntransient,
                    sigalrm >>

\* Lines 79-97: close the standard streams, reset every signal to SIG_DFL,
\* clear the mask and environment, then open /dev/null and dup it twice;
\* k is the number of those three calls that succeed.
daemons_redirect(i) ==
    /\ proc[i].pc = "redirect"
    /\ \E k \in 0 .. 3 :
         proc' = [ proc EXCEPT
                     ![i].handler = FALSE,
                     ![i].nfd = [ j \in 1 .. 3 |->
                                    IF j <= k THEN "open" ELSE "none" ],
                     ![i].pc = CASE k = 3 -> "loop"
                                 [] k = 2 -> "err1"
                                 [] k = 1 -> "err0"
                                 [] OTHER -> "err" ]
    /\ UNCHANGED << envvars, orchvars, nprocs, chan, written, ntransient,
                    sigalrm >>

\* NextBackoff without the clamp of lines 109-110.
NextBackoff_unclamped(b) == b + BackoffStep

\* Lines 108-110: the next backoff delay.
NextBackoff(b) ==
    IF b + BackoffStep > MAX_BACKOFF THEN MAX_BACKOFF ELSE b + BackoffStep

\* AfterFork without the break at line 130: the parent loops again.
AfterFork_nobreak(pid) == IF pid = 0 THEN "chdir" ELSE "loop"

\* Lines 114-131: where fork()'s two returns continue: the child (pid == 0)
\* at its chdir, the parent (pid > 0) at daemon_wait_pid() and the break.
AfterFork(pid) == IF pid = 0 THEN "chdir" ELSE "wait"

\* The descendant as fork() at line 102 creates it: a copy of the caller
\* (descriptors, stop flag, dispositions, backoff) resuming at line 115.
NewDaemon(i) ==
    [ proc[i] EXCEPT !.pc = AfterFork(0), !.pid = NOPID, !.parent = i,
                     !.wrote = 0, !.forked = 0, !.consec = 0,
                     !.chdir_ok = FALSE ]

\* Lines 99-113 and 127-130: the loop condition and one fork attempt.
daemons_fork(i) ==
    /\ proc[i].pc = "loop"
    /\ \/ /\ ~ keep_stressing_flag(i)                \* loop condition false
          /\ proc' = [ proc EXCEPT ![i].pc = "tidy" ]
          /\ UNCHANGED << nprocs, ntransient >>
       \/ /\ keep_stressing_flag(i)                  \* pid > 0 / pid == 0
          /\ nprocs < slots
          /\ proc' = [ proc EXCEPT ![i].pc = AfterFork(nprocs + 1),
                                   ![i].pid = nprocs,
                                   ![i].forked = proc[i].forked + 1,
                                   ![i].consec = 0,
                                   ![nprocs] = NewDaemon(i) ]
          /\ nprocs' = nprocs + 1
          /\ UNCHANGED ntransient
       \/ /\ keep_stressing_flag(i)                  \* EAGAIN or ENOMEM
          /\ ntransient < budget
          /\ proc' = [ proc EXCEPT
                         ![i].slept = proc[i].backoff,
                         ![i].backoff = NextBackoff(proc[i].backoff),
                         ![i].nfail = proc[i].nfail + 1,
                         ![i].consec = proc[i].consec + 1 ]
          /\ ntransient' = ntransient + 1
          /\ UNCHANGED nprocs
       \/ /\ keep_stressing_flag(i)                  \* any other errno
          /\ proc' = [ proc EXCEPT ![i].pc = "tidy" ]
          /\ UNCHANGED << nprocs, ntransient >>
    /\ UNCHANGED << envvars, orchvars, chan, written, sigalrm >>

\* daemons_chdir without the goto err2 of line 120: the write follows a failed
\* chdir as well.
daemons_chdir_ignore(i) ==
    /\ proc[i].pc = "chdir"
    /\ \E ok \in BOOLEAN :
         proc' = [ proc EXCEPT ![i].chdir_ok = ok, ![i].pc = "write" ]
    /\ UNCHANGED << envvars, orchvars, nprocs, chan, written, ntransient,
                    sigalrm >>

\* Lines 119-122: chdir("/"), umask, drop capabilities.
daemons_chdir(i) ==
    /\ proc[i].pc = "chdir"
    /\ \E ok \in BOOLEAN :
         proc' = [ proc EXCEPT ![i].chdir_ok = ok,
                               ![i].pc = IF ok THEN "write" ELSE "err2" ]
    /\ UNCHANGED << envvars, orchvars, nprocs, chan, written, ntransient,
                    sigalrm >>

\* Lines 116, 124-126: write the one-byte buffer { 0xff } to the pipe. With
\* room in the pipe the byte goes in and the loop continues; a write that
\* does not return 1 goes to err2; with no read end left the kernel raises
\* SIGPIPE, whose disposition line 84 reset to the default: termination.
daemons_write(i) ==
    /\ proc[i].pc = "write"
    /\ \/ /\ Readers
          /\ Len(chan) < PipeCap
          /\ chan' = Append(chan, Sentinel)
          /\ written' = written + 1
          /\ proc' = [ proc EXCEPT ![i].wrote = proc[i].wrote + 1,
                                   ![i].pc = "loop" ]
       \/ /\ Readers
          /\ proc' = [ proc EXCEPT ![i].pc = "err2" ]
          /\ UNCHANGED << chan, written >>
       \/ /\ ~ Readers
          /\ proc' = Terminate(i, proc[i], TRUE)
          /\ UNCHANGED << chan, written >>
    /\ UNCHANGED << envvars, orchvars, nprocs, ntransient, sigalrm >>

\* Lines 127-130: the intermediate parent waits for its child if daemon_wait
\* is set, and leaves the loop.
daemons_parent_wait(i) ==
    /\ proc[i].pc = "wait"
    /\ daemon_wait_pid_ready(proc[i].pid)
    /\ proc' = [ daemon_wait_pid_reap(proc[i].pid) EXCEPT ![i].pc = "tidy" ]
    /\ UNCHANGED << envvars, orchvars, nprocs, chan, written, ntransient,
                    sigalrm >>

\* daemons_tidy without the close of fds[0] at line 137.
daemons_tidy_partial(i) ==
    /\ proc[i].pc = "tidy"
    /\ proc' = [ proc EXCEPT
                   ![i].nfd = [ k \in 1 .. 3 |->
                                  IF k > 1 THEN Close(proc[i].nfd[k])
                                  ELSE proc[i].nfd[k] ],
                   ![i].pc = "close_w" ]
    /\ UNCHANGED << envvars, orchvars, nprocs, chan, written, ntransient,
                    sigalrm >>

\* Lines 134-138: tidy: close fds[2], fds[1], fds[0] and return.
daemons_tidy(i) ==
    /\ proc[i].pc = "tidy"
    /\ proc' = [ proc EXCEPT
                   ![i].nfd = [ k \in 1 .. 3 |-> Close(proc[i].nfd[k]) ],
                   ![i].badclose = proc[i].badclose
                       + Cardinality({ k \in 1 .. 3 : proc[i].nfd[k] # "open" }),
                   ![i].pc = "close_w" ]
    /\ UNCHANGED << envvars, orchvars, nprocs, chan, written, ntransient,
                    sigalrm >>

\* ErrCloses with err2 entering the cleanup one label too late.
ErrCloses_short(l) ==
    CASE l = "err2" -> 2 [] l = "err1" -> 2 [] l = "err0" -> 1 [] OTHER -> 0

\* Number of null-device slots the cleanup entered at label l closes.
ErrCloses(l) ==
    CASE l = "err2" -> 3 [] l = "err1" -> 2 [] l = "err0" -> 1 [] OTHER -> 0

\* Lines 140-144: err2/err1/err0/err fall through, closing the null-device
\* descriptors opened so far and then the pipe's write end fd.
daemons_err(i) ==
    /\ proc[i].pc \in { "err2", "err1", "err0", "err" }
    /\ LET n == ErrCloses(proc[i].pc)
       IN proc' = [ proc EXCEPT
                     ![i].nfd = [ k \in 1 .. 3 |->
                                    IF k <= n THEN Close(proc[i].nfd[k])
                                    ELSE proc[i].nfd[k] ],
                     ![i].badclose = proc[i].badclose
                         + Cardinality({ k \in 1 .. n : proc[i].nfd[k] # "open" })
                         + (IF proc[i].wfd # "open" THEN 1 ELSE 0),
                     ![i].wfd = Close(proc[i].wfd),
                     ![i].pc = "close_w" ]
    /\ UNCHANGED << envvars, orchvars, nprocs, chan, written, ntransient,
                    sigalrm >>

\* stress_daemon_child_exit without shim_exit_group(0) at line 185: the child
\* branch falls through to the finish label and returns.
stress_daemon_child_exit_fallthrough(i) ==
    /\ proc[i].pc = "close_w"
    /\ proc' = [ proc EXCEPT ![i].wfd = Close(proc[i].wfd),
                             ![i].pc = "finish" ]
    /\ UNCHANGED << envvars, orchvars, nprocs, chan, written, ntransient,
                    sigalrm >>

\* Lines 184-185: back from daemons(), close fds[1] and shim_exit_group(0).
stress_daemon_child_exit(i) ==
    /\ proc[i].pc = "close_w"
    /\ proc' = Terminate(i, [ proc[i] EXCEPT
                                !.badclose = proc[i].badclose
                                    + (IF proc[i].wfd # "open" THEN 1 ELSE 0),
                                !.wfd = Close(proc[i].wfd) ], FALSE)
    /\ UNCHANGED << envvars, orchvars, nprocs, chan, written, ntransient,
                    sigalrm >>

\* ---- environment ----------------------------------------------------------
\* SIGALRM delivered to the Orchestrator once line 158 has registered the
\* stop handler: the handler clears the stop flag; a waitpid() the signal
\* finds blocked at line 56 returns early, its result being discarded.
SigAlrmOrch ==
    /\ pcO \notin { "sigstop", "returned" }
    /\ sigalrm' = TRUE
    /\ flagO' = FALSE
    /\ \/ UNCHANGED pcO
       \/ /\ pcO = "wait"
          /\ daemon_wait
          /\ proc[pidO].pc # "zombie"
          /\ pcO' = "finish"
    /\ UNCHANGED << envvars, counter, fds, pidO, ret, cause, lastn, lasterr,
                    dbg, proc, nprocs, chan, written, nread, nreadcalls, neof,
                    ntransient, redo >>

\* SIGALRM delivered to a lineage process: with the stop handler in place the
\* stop flag is cleared, with the default disposition the process dies.
SigAlrmProc(i) ==
    /\ Alive(i)
    /\ sigalrm' = TRUE
    /\ proc' = IF proc[i].handler
                THEN [ proc EXCEPT ![i].flag = FALSE ]
                ELSE Terminate(i, proc[i], TRUE)
    /\ UNCHANGED << envvars, orchvars, nprocs, chan, written, ntransient >>

Orchestrator ==
    \/ stress_daemon_sigstop
    \/ stress_daemon_pipe
    \/ stress_daemon_fork
    \/ stress_daemon_parent_close
    \/ stress_daemon_read_byte
    \/ stress_daemon_read_eof
    \/ stress_daemon_read_err
    \/ stress_daemon_wait
    \/ stress_daemon_finish

Lineage(i) ==
    \/ stress_daemon_child_close(i)
    \/ daemons_init(i)
    \/ daemons_redirect(i)
    \/ daemons_fork(i)
    \/ daemons_chdir(i)
    \/ daemons_write(i)
    \/ daemons_parent_wait(i)
    \/ daemons_tidy(i)
    \/ daemons_err(i)
    \/ stress_daemon_child_exit(i)

Next ==
    \/ Orchestrator
    \/ \E i \in Procs : Lineage(i)
    \/ SigAlrmOrch
    \/ \E i \in Procs : SigAlrmProc(i)

Spec == Init /\ [][Next]_vars

\* The steps of the Orchestrator's code that do not depend on a failure being
\* injected: a read returns once a byte or end-of-stream is there.
OrchestratorRuns ==
    \/ stress_daemon_sigstop
    \/ stress_daemon_pipe
    \/ stress_daemon_fork
    \/ stress_daemon_parent_close
    \/ stress_daemon_read_byte
    \/ stress_daemon_read_eof
    \/ stress_daemon_wait
    \/ stress_daemon_finish

\* Every process is scheduled fairly: the Orchestrator and every process of
\* the lineage take a step of their code when one stays possible.
Fairness ==
    /\ WF_vars(OrchestratorRuns)
    /\ \A i \in Procs : WF_vars(Lineage(i))

\* The run in which no stop condition is ever raised: no SIGALRM arrives.
NextNoStop ==
    \/ Orchestrator
    \/ \E i \in Procs : Lineage(i)

FairSpec == Init /\ [][NextNoStop]_vars /\ Fairness

\* ---- the Daemonizer loop under sustained resource exhaustion --------------
\* The state the run is in once the Worker has reached the loop at line 99
\* (handler registered, pipe created, Worker forked, each side having closed
\* the end it does not own, setsid and the /dev/null redirection done), with
\* an environment that may fail fork() MaxBackoffFails times.
InitBackoff ==
    /\ daemon_wait = FALSE
    /\ max_ops = 1
    /\ budget = MaxBackoffFails
    /\ slots = MaxProcs
    /\ counter = 0
    /\ flagO = TRUE
    /\ pcO = "read"
    /\ fds = [ r |-> "open", w |-> "closed" ]
    /\ pidO = 0
    /\ ret = "none"
    /\ cause = "none"
    /\ lastn = 9
    /\ lasterr = "none"
    /\ dbg = 0
    /\ proc = [ i \in Procs |->
                  IF i = 0
                  THEN [ NoProc EXCEPT !.pc = "loop", !.flag = TRUE,
                                       !.rfd = "closed", !.wfd = "open",
                                       !.nfd = << "open", "open", "open" >>,
                                       !.backoff = BackoffInit,
                                       !.parent = ORCH ]
                  ELSE NoProc ]
    /\ nprocs = 1
    /\ chan = << >>
    /\ written = 0
    /\ nread = 0
    /\ nreadcalls = 0
    /\ neof = 0
    /\ ntransient = 0
    /\ redo = FALSE
    /\ sigalrm = FALSE

\* The processes at the head of the lineage run their spawn loop; the
\* Orchestrator and the intermediate parents are not scheduled.
BackoffNext ==
    \E i \in Procs :
        \/ daemons_fork(i)
        \/ daemons_chdir(i)
        \/ daemons_write(i)

BackoffSpec == InitBackoff /\ [][BackoffNext]_vars

\* ---- the run with daemon-wait set -------------------------------------------
\* The run started with --daemon-wait and a positive daemon-ops target, on a
\* system with MaxLineage process slots for the lineage.
InitWait ==
    /\ daemon_wait = TRUE
    /\ max_ops \in 1 .. MaxOps
    /\ budget = MaxTransient
    /\ slots = MaxLineage
    /\ counter = 0
    /\ flagO = TRUE
    /\ pcO = "sigstop"
    /\ fds = [ r |-> "none", w |-> "none" ]
    /\ pidO = NOPID
    /\ ret = "none"
    /\ cause = "none"
    /\ lastn = 9
    /\ lasterr = "none"
    /\ dbg = 0
    /\ proc = [ i \in Procs |-> NoProc ]
    /\ nprocs = 0
    /\ chan = << >>
    /\ written = 0
    /\ nread = 0
    /\ nreadcalls = 0
    /\ neof = 0
    /\ ntransient = 0
    /\ redo = FALSE
    /\ sigalrm = FALSE

\* The stop signal reaches the Orchestrator only; the lineage, in its own
\* session after setsid(), is left to run.
WaitNext ==
    \/ Orchestrator
    \/ \E i \in Procs : Lineage(i)
    \/ SigAlrmOrch

WaitSpec == InitWait /\ [][WaitNext]_vars

\* ---- properties -----------------------------------------------------------
Returned == pcO = "returned"
Success == Returned /\ ret = "EXIT_SUCCESS"
Failure == Returned /\ ret = "EXIT_FAILURE"
LoopExited == nreadcalls > 0 /\ pcO \in { "wait", "finish", "returned" }
Created == { i \in Procs : proc[i].pc # "none" }

\* C1: in the read loop RunCounter is incremented only when read() returned
\* exactly one byte; a read returning 0 (end-of-stream) or an error never
\* increments RunCounter and ends the loop.
C1_CountsOnlySentinels ==
    [][ nreadcalls' # nreadcalls =>
          /\ (counter' # counter => lastn' = 1)
          /\ (lastn' \in { 0, -1 } => counter' = counter /\ pcO' # "read") ]_vars

\* C2 as stated: across the Worker and all its descendants at most one daemon
\* descendant is created and at most one sentinel byte is written.
C2_OneDaemonPerWorker ==
    /\ Cardinality({ i \in Created : proc[i].parent # ORCH }) <= 1
    /\ written <= 1

\* C2 as amended: a successful fork ends the spawning loop in the forking
\* process only; every process of the lineage creates at most one child and
\* writes at most one sentinel, also after transient fork failures.
C2_OneForkPerProcess ==
    \A i \in Procs :
        /\ proc[i].forked <= 1
        /\ proc[i].wrote <= 1
        /\ Cardinality({ j \in Created : proc[j].parent = i }) <= 1
        /\ proc[i].forked = 1 =>
               proc[i].pc \in { "wait", "tidy", "close_w", "zombie", "reaped" }

C2_Witness ==
    /\ ntransient > 0
    /\ written = 2
    /\ \E i, j \in Procs :
          /\ proc[i].parent = ORCH /\ proc[i].forked = 1
          /\ proc[j].parent = i /\ proc[j].forked = 1 /\ proc[j].wrote = 1

\* C3 as stated: when the run returns Success, RunCounter equals the number
\* of sentinel bytes written by the lineage and is at most the target N.
C3_CounterEqualsWritten ==
    Success => counter = written /\ counter <= max_ops

\* C3 as amended: when the run returns Success, RunCounter equals the number
\* of reads that did not fail (sentinel bytes taken from the pipe plus the
\* end-of-stream reads), the bytes taken are at most the bytes written, and
\* RunCounter <= N whenever N >= 1.
C3_CounterEqualsGoodReads ==
    Success =>
        /\ counter = nread + neof
        /\ nread <= written
        /\ max_ops >= 1 => counter <= max_ops

C3_Witness ==
    /\ Success
    /\ max_ops >= 1
    /\ counter = max_ops
    /\ nread >= 1
    /\ written > nread

\* C5 as stated: a read failing with EINTR does not end the read loop: the
\* read end stays open and, while the run is active, another read is issued.
C5_InterruptedReadRetried ==
    (lastn = -1 /\ lasterr = "EINTR") =>
        /\ fds.r = "open"
        /\ keep_stressing(flagO, counter) => pcO = "read"

\* C5 as amended: every failed read, interrupted or not, closes the read end
\* and ends the read loop without changing RunCounter; an interrupted read
\* differs only in not being reported.
C5_AnyReadErrorEndsLoop ==
    [][ lastn' = -1 =>
          /\ fds'.r = "closed"
          /\ pcO' \in { "wait", "finish", "returned" }
          /\ counter' = counter
          /\ (lasterr' = "EINTR") = (dbg' = 0) ]_vars

C5_Witness ==
    /\ lastn = -1
    /\ lasterr = "EINTR"
    /\ keep_stressing(flagO, counter)
    /\ pcO = "wait"

\* C6: on every path by which the run returns, both ends of the pipe are
\* closed in the Orchestrator.
C6_ChannelClosedAtReturn ==
    Returned => fds.r # "open" /\ fds.w # "open"

\* C8: with daemon-wait, when the run returns every process it spawned has
\* terminated and been reaped by its parent.
C8_AllReapedAtReturn ==
    (daemon_wait /\ Returned) =>
        \A i \in Created : proc[i].pc = "reaped" /\ proc[i].reaper = "parent"

\* C9 as stated: the run returns Failure if and only if pipe creation failed
\* or the Worker fork failed non-retryably while the run was active.
C9_FailureIffStructural ==
    Returned => ((ret = "EXIT_FAILURE") = (cause \in { "pipe", "fork" }))

\* C9 as amended: the run returns Failure if and only if registering the stop
\* handler failed, pipe creation failed, or the Worker fork failed
\* non-retryably while the run was active; everything else returns Success.
C9_FailureIffSetupFailed ==
    Returned =>
        /\ (ret = "EXIT_FAILURE") = (cause \in { "sigstop", "pipe", "fork" })
        /\ (ret = "EXIT_SUCCESS") = (cause \in { "none", "fork_inactive" })

C9_Witness ==
    /\ Success
    /\ lastn = -1
    /\ ntransient > 0
    /\ \E i \in Procs : proc[i].pc \in { "zombie", "reaped" } /\ ~ proc[i].chdir_ok
                        /\ proc[i].parent # ORCH

\* C10: if pipe creation fails the run returns Failure, RunCounter is still
\* 0 and no process has been forked.
C10_PipeFailure ==
    cause = "pipe" =>
        /\ Failure
        /\ counter = 0
        /\ nprocs = 0
        /\ pidO = NOPID
        /\ nreadcalls = 0

C10_Witness == cause = "pipe" /\ Returned

\* A process that is inside daemons() and so has a backoff delay.
HasBackoff(i) == Alive(i) /\ proc[i].pc \notin { "close_r", "init", "close_w" }

\* C7 as stated: the delay slept on the k-th consecutive transient failure
\* (k counted since the last successful fork) is min(100*k, 10000), and the
\* delay never exceeds 10000.
C7_DelayByConsecutiveFailures ==
    \A i \in Procs :
        HasBackoff(i) =>
            /\ proc[i].backoff <= MAX_BACKOFF
            /\ proc[i].consec > 0 =>
                   proc[i].slept = Min(BackoffStep * proc[i].consec, MAX_BACKOFF)

\* C7 as amended: the delay starts at 100 and becomes min(delay + 100, 10000)
\* after each transient failure; a descendant continues with the delay it
\* inherited at its fork, so the delay slept on the k-th transient failure of
\* a process's history in the invocation (its ancestors' failures before its
\* fork included) is min(100*k, 10000); the delay never decreases, never
\* exceeds 10000 and is left as it is by a successful fork.
C7_DelayByFailuresInHistory ==
    [][ \A i \in Procs :
          HasBackoff(i)' =>
              /\ proc'[i].backoff =
                     Min(BackoffInit + BackoffStep * proc'[i].nfail, MAX_BACKOFF)
              /\ proc'[i].backoff <= MAX_BACKOFF
              /\ proc'[i].nfail > 0 =>
                     proc'[i].slept = Min(BackoffStep * proc'[i].nfail, MAX_BACKOFF)
              /\ HasBackoff(i) => proc'[i].backoff >= proc[i].backoff
              /\ (HasBackoff(i) /\ proc'[i].forked > proc[i].forked) =>
                     /\ proc'[i].backoff = proc[i].backoff
                     /\ proc'[proc'[i].pid].backoff = proc[i].backoff ]_vars

C7_Witness ==
    \E i \in Procs :
        /\ HasBackoff(i)
        /\ proc[i].parent # ORCH
        /\ proc[i].consec > 0
        /\ proc[i].nfail = MaxBackoffFails
        /\ proc[i].slept = MAX_BACKOFF
        /\ proc[i].backoff = MAX_BACKOFF

C11_WorkerForkFailure ==
    /\ redo => pcO = "fork" /\ nprocs = 0 /\ ret = "none" /\ cause = "none"
    /\ cause = "fork" =>
           /\ Failure
           /\ keep_stressing(flagO, counter)
           /\ fds.r = "closed" /\ fds.w = "closed"
    /\ cause = "fork_inactive" =>
           /\ pcO \in { "finish", "returned" }
           /\ ~ keep_stressing(flagO, counter)
           /\ Returned => ret = "EXIT_SUCCESS"
    /\ (redo \/ cause \in { "fork", "fork_inactive" }) =>
           /\ counter = 0
           /\ nreadcalls = 0
           /\ nprocs = 0
           /\ pidO = NOPID

C11_Witness ==
    /\ Success
    /\ cause = "fork_inactive"
    /\ max_ops > 0
    /\ ~ flagO

\* C12: every sentinel in the pipe is one byte of value 0xFF, written by a
\* freshly forked daemon descendant (no fork of its own yet) after its chdir
\* to the root succeeded; each process writes at most one sentinel in its
\* lifetime and the Worker never writes one.
C12_SentinelWrites ==
    /\ [] /\ \A k \in 1 .. Len(chan) : chan[k] = 255
          /\ \A i \in Procs :
                /\ proc[i].wrote <= 1
                /\ proc[i].parent = ORCH => proc[i].wrote = 0
                /\ proc[i].wrote = 1 => proc[i].chdir_ok /\ proc[i].parent \in Procs
          /\ written = Cardinality({ i \in Procs : proc[i].wrote = 1 })
    /\ [][ written' # written =>
             /\ written' = written + 1
             /\ chan' = Append(chan, 255)
             /\ \E i \in Procs :
                   /\ proc[i].pc = "write"
                   /\ proc[i].wrote = 0 /\ proc'[i].wrote = 1
                   /\ proc[i].forked = 0
                   /\ proc[i].chdir_ok
                   /\ proc[i].parent \in Procs
                   /\ \A j \in Procs \ { i } : proc'[j].wrote = proc[j].wrote ]_vars

C12_Witness ==
    /\ written = 2
    /\ Len(chan) = 1
    /\ \E i, j \in Procs :
          /\ proc[i].parent = ORCH /\ proc[i].wrote = 0
          /\ proc[j].parent = i /\ proc[j].wrote = 1 /\ proc[j].forked = 1

\* The positions of the spawn/backoff loop of daemons(), lines 99-132.
InSpawnLoop(i) == proc[i].pc \in { "loop", "chdir", "write", "wait" }

\* C13: a stop signal delivered to a process that is in the spawn/backoff
\* loop of daemons() finds the stop handler registered at line 74 still in
\* effect: the process is not killed, its keep-running flag becomes false and
\* it makes no further fork attempt.
C13_StopSignalEndsLoopCleanly ==
    [][ \A i \in Procs :
          (InSpawnLoop(i) /\ SigAlrmProc(i)) =>
              /\ proc[i].handler
              /\ Alive(i)'
              /\ ~ proc'[i].flag
              /\ ~ proc'[i].killed ]_vars

\* A daemon descendant on the abandon path: at err2, or past it (returned
\* from daemons() or exited by itself) without having written its sentinel.
Abandoned(i) ==
    /\ proc[i].parent \in Procs
    /\ \/ proc[i].pc = "err2"
       \/ /\ proc[i].pc \in { "close_w", "zombie", "reaped" }
          /\ proc[i].wrote = 0
          /\ ~ proc[i].killed

\* C14: a daemon descendant whose chdir fails or whose write does not return
\* 1 is abandoned: it writes no sentinel, makes no fork attempt, closes the
\* three null-device descriptors and the pipe's write end and exits; its
\* parent has left the spawn loop, so no process retries the attempt.
C14_AbandonedDescendant ==
    /\ [] \A i \in Procs :
            Abandoned(i) =>
                /\ proc[i].wrote = 0
                /\ proc[i].forked = 0
                /\ \A j \in Procs : proc[j].parent # i
                /\ proc[i].pc = "close_w" =>
                       /\ proc[i].wfd = "closed"
                       /\ \A k \in 1 .. 3 : proc[i].nfd[k] = "closed"
                /\ proc[i].pc \in { "zombie", "reaped" } => ~ proc[i].leak
                /\ proc[proc[i].parent].forked = 1
                /\ ~ InSpawnLoop(proc[i].parent) \/ proc[proc[i].parent].pc = "wait"
    /\ [][ \A i \in Procs :
             (proc[i].pc = "err2" /\ Alive(i)' /\ proc'[i] # proc[i]) =>
                 /\ proc'[i].pc = "close_w"
                 /\ proc'[i].wfd = "closed"
                 /\ \A k \in 1 .. 3 : proc'[i].nfd[k] = "closed"
                 /\ written' = written /\ nprocs' = nprocs ]_vars

C14_Witness ==
    \E i \in Procs :
        /\ Abandoned(i)
        /\ proc[i].pc \in { "zombie", "reaped" }
        /\ proc[i].chdir_ok
        /\ proc[proc[i].parent].parent \in Procs
        /\ proc[proc[i].parent].wrote = 1

\* The positions at which a process is leaving daemons(): the cleanup labels
\* and the return to the Worker branch of stress_daemon().
Stopping(i) ==
    proc[i].pc \in { "tidy", "err2", "err1", "err0", "err", "close_w" }

\* C15: on every path by which a process leaves daemons() (setsid or handler
\* failure, /dev/null open or dup failure, non-transient fork failure,
\* keep-running false, intermediate parent after a successful fork, abandoned
\* descendant) it has closed every null-device descriptor it opened when it
\* returns, and those and the pipe's write end when it exits; once on such a
\* path it writes no sentinel.
C15_DescriptorsReleasedOnStop ==
    /\ [] \A i \in Procs :
            /\ proc[i].pc = "close_w" =>
                   \A k \in 1 .. 3 : proc[i].nfd[k] # "open"
            /\ (proc[i].pc \in { "zombie", "reaped" } /\ ~ proc[i].killed) =>
                   ~ proc[i].leak
    /\ [][ \A i \in Procs :
             /\ Stopping(i) =>
                   /\ proc'[i].wrote = proc[i].wrote
                   /\ proc'[i].forked = proc[i].forked
                   /\ Alive(i)' => Stopping(i)'
             /\ (Alive(i) /\ ~ Alive(i)' /\ ~ proc'[i].killed) =>
                   /\ proc[i].pc = "close_w"
                   /\ proc'[i].wfd = "closed"
                   /\ proc'[i].rfd = "closed" ]_vars

C15_Witness ==
    \E i, j \in Procs :
        /\ proc[i].pc \in { "zombie", "reaped" } /\ ~ proc[i].killed
        /\ proc[i].parent = ORCH
        /\ proc[i].forked = 1
        /\ proc[i].nfd = << "closed", "closed", "closed" >>
        /\ proc[j].pc \in { "zombie", "reaped" } /\ ~ proc[j].killed
        /\ proc[j].parent = i
        /\ proc[j].wrote = 1
        /\ proc[j].forked = 0

\* C16: the Worker closes the read end before daemons() runs, so no process
\* of the lineage that is in daemons() or beyond, and no descendant at all,
\* holds the read end; the Orchestrator closes the write end before its first
\* read, so it never reads while holding it, and end-of-stream is observed
\* exactly when no living lineage process holds the write end.
C16_DisjointEnds ==
    /\ [] /\ \A i \in Procs :
                /\ proc[i].pc \notin { "none", "close_r" } => proc[i].rfd = "closed"
                /\ proc[i].parent \in Procs => proc[i].rfd = "closed"
                /\ proc[i].forked > 0 => proc[i].rfd = "closed"
          /\ (pcO = "read" \/ nreadcalls > 0) => fds.w = "closed"
          /\ pcO = "read" =>
                 (Writers <=> \E i \in Procs : Alive(i) /\ proc[i].wfd = "open")
          /\ (pcO = "read" /\ chan = << >>
                /\ \A i \in Procs : Alive(i) => proc[i].wfd # "open") =>
                 ENABLED stress_daemon_read_eof
    /\ [][ neof' # neof =>
             /\ fds.w = "closed"
             /\ \A i \in Procs : Alive(i) => proc[i].wfd # "open" ]_vars

C16_Witness ==
    /\ neof = 1
    /\ nread = 1
    /\ written = 1
    /\ \A i \in Created : ~ proc[i].killed

\* The Orchestrator is in waitpid() for the Worker, which has not terminated.
OrchBlockedInWait ==
    /\ daemon_wait
    /\ pcO = "wait"
    /\ proc[pidO].pc # "zombie"

\* Process i is in a write() that cannot proceed: the pipe is full and its
\* read end is held open by the Orchestrator, which reads no more.
BlockedInWrite(i) ==
    /\ proc[i].pc = "write"
    /\ Len(chan) = PipeCap
    /\ fds.r = "open"
    /\ pcO \in { "wait", "finish", "returned" }

\* C17: with daemon-wait, once the stop condition is raised in the
\* Orchestrator or the target is reached, the wait for the Worker completes:
\* the Orchestrator is never blocked waiting for the Worker while a process of
\* the lineage is blocked writing a sentinel to the full pipe.
C17_WaitCompletes ==
    ~ (OrchBlockedInWait /\ \E i \in Procs : BlockedInWrite(i))

\* The positions a process of the lineage can be at: the child branch of
\* stress_daemon() (lines 180-185) and daemons().
LineagePcs ==
    { "none", "close_r", "init", "redirect", "loop", "wait", "chdir", "write",
      "tidy", "err2", "err1", "err0", "err", "close_w", "zombie", "reaped" }

\* Process i has terminated through shim_exit_group(0).
ExitedZero(i) == proc[i].pc \in { "zombie", "reaped" } /\ ~ proc[i].killed

\* C18: only the Orchestrator returns from stress_daemon() or changes
\* RunCounter. The Worker and every descendant, on whatever path they leave
\* daemons(), close the write end and exit with status 0 at once; they never
\* read the pipe, increment RunCounter or reach the finish label.
C18_OnlyOrchestratorReturns ==
    /\ [] \A i \in Procs :
            /\ proc[i].pc \in LineagePcs
            /\ ExitedZero(i) => proc[i].wfd = "closed" /\ ~ proc[i].leak
    /\ [][ /\ (counter' # counter \/ ret' # ret \/ nreadcalls' # nreadcalls
                 \/ Len(chan') < Len(chan)) =>
                  proc' = proc
           /\ \A i \in Procs :
                 /\ (Stopping(i) /\ proc'[i].pc # proc[i].pc /\ Alive(i)') =>
                        proc'[i].pc = "close_w"
                 /\ (Alive(i) /\ ExitedZero(i)') =>
                        /\ proc[i].pc = "close_w"
                        /\ UNCHANGED << counter, pcO, ret, nreadcalls, chan >> ]_vars

C18_Witness ==
    /\ Success
    /\ counter >= 1
    /\ \E i, j \in Procs :
          /\ proc[i].parent = ORCH /\ ExitedZero(i)
          /\ proc[j].parent = i /\ ExitedZero(j) /\ proc[j].wrote = 1

\* C19: no process of the lineage closes a descriptor it has already closed
\* or never opened: on every path each null-device descriptor and each pipe
\* end is closed at most once.
C19_NoDoubleClose ==
    \A i \in Procs : proc[i].badclose = 0

====
